---------------------------- MODULE Spec2Model ----------------------------
(***************************************************************************)
(* Model of the MayaAPIUtils adapter headers:                              *)
(*   maya_iteration/maya_array_range.h  MayaArrayRange / MayaArrayIter     *)
(*   maya_array/maya_array.h            MayaArray                          *)
(*   maya_templates/maya_stl.h          std::hash / std::equal_to<MString> *)
(*                                                                         *)
(* Host arrays (M***Array) live in `heap`, keyed by their identity (their  *)
(* address in the program).  An iterator is the pair (c, i) the code       *)
(* stores: the identity of the array it refers to and an unsigned index.   *)
(*                                                                         *)
(* unsigned int values are carried as their 32-bit pattern read as a       *)
(* two's-complement integer (4294967295 is -1), so that i - n, i + n and   *)
(* the conversions between size_type and difference_type (int) are plain   *)
(* integer arithmetic for the magnitudes reached here; the comparisons of  *)
(* unsigned operands are ULess / ULessEq.                                  *)
(***************************************************************************)
EXTENDS Integers, Sequences, FiniteSets, TLC

\* Largest length any host array is allowed to grow to in the model.
MaxLen == 4
\* Largest length of the second host array (the one wrapped by a range).
MaxHostLen == 2
\* Largest repeat count passed to insert(pos, count, value).
MaxCount == 2
\* Largest number of std::hash<MString> calls recorded.
MaxHashCalls == 3

\* Element values of the arrays (opaque to the adapter).
Values == {"x", "y"}
NoValue == "none"

\* Identities of the two host arrays: the MayaArray's own member mArray and
\* a host-owned array wrapped by a MayaArrayRange.
MA == "mArray"
HA == "hostArray"
ArrayIds == {MA, HA}

VARIABLES
    heap,         \* the host arrays, by identity
    op,           \* the last operation called
    args,         \* its arguments
    pre,          \* the heap before it
    ret,          \* what it returned
    pc,           \* idle, returned (a call's result is held), or the
                  \* position of the iteration loop: test, body, done
    it,           \* the loop's iterator
    trace,        \* the indices the loop dereferenced, in order
    incs,         \* the number of ++it the loop made
    asserted,     \* every assert(i < c.length()) of the loop held
    hostHash,     \* the host's hash function on unique strings
    internTable,  \* the host's interning table
    hashLog       \* the std::hash<MString> calls made: value and result

vars == <<heap, op, args, pre, ret, pc, it, trace, incs, asserted,
          hostHash, internTable, hashLog>>

arrayVars == <<heap, op, args, pre, ret, pc, it, trace, incs, asserted>>
hashVars == <<hostHash, internTable, hashLog>>

-----------------------------------------------------------------------------
(* unsigned int comparison on 32-bit patterns *)

ULess(a, b) ==
    IF (a >= 0) = (b >= 0) THEN a < b ELSE a >= 0

ULessEq(a, b) == a = b \/ ULess(a, b)

\* Every bounded set of sequences used for drawing inputs.
SeqsUpTo(S, n) == UNION {[1..k -> S] : k \in 0..n}

-----------------------------------------------------------------------------
(* The host SDK's array contract: operator[], length, append, insert,      *)
(* remove, setLength, clear.                                               *)

MArray_length(s) == Len(s)

\* operator[](index).  Outside the array the read is undefined behaviour;
\* what it yields is an indeterminate value, NoValue here.
MArray_index(s, index) ==
    IF index >= 0 /\ index < Len(s) THEN s[index + 1] ELSE NoValue

\* Assignment through the reference operator[] returns.
MArray_set(s, index, value) == [s EXCEPT ![index + 1] = value]

MArray_append(s, value) == Append(s, value)

\* insert(value, index): the element at index and all following ones shift
\* towards the end; an index past the length fails and changes nothing.
MArray_insert(s, value, index) ==
    IF index >= 0 /\ index <= Len(s)
    THEN SubSeq(s, 1, index) \o <<value>> \o SubSeq(s, index + 1, Len(s))
    ELSE s

\* remove(index): an index out of range fails and changes nothing.
MArray_remove(s, index) ==
    IF index >= 0 /\ index < Len(s)
    THEN SubSeq(s, 1, index) \o SubSeq(s, index + 2, Len(s))
    ELSE s

\* setLength(count): shrinking drops the tail; growing adds elements whose
\* values are uninitialized, here the sequence `garbage` chosen by the caller
\* of the model (any values at all).
MArray_setLength(s, count, garbage) ==
    IF count <= Len(s) THEN SubSeq(s, 1, count)
    ELSE s \o SubSeq(garbage, 1, count - Len(s))

MArray_clear(s) == <<>>

-----------------------------------------------------------------------------
(* MayaArrayIter *)

\* MayaArrayIter(C& c) : c(c), i(0)
MayaArrayIter_ctor(c) == [c |-> c, i |-> 0]

\* MayaArrayIter(C& c, unsigned int i)
MayaArrayIter_ctor_i(c, i) == [c |-> c, i |-> i]

\* The condition of assert(i < c.length()) in operator* and operator->.
IterAssert(h, a) == ULess(a.i, MArray_length(h[a.c]))

\* operator*: the element read, or the failed assertion.
IterDeref(h, a) ==
    IF IterAssert(h, a)
    THEN [kind |-> "value", val |-> MArray_index(h[a.c], a.i), idx |-> a.i]
    ELSE [kind |-> "assert_fail", val |-> NoValue, idx |-> a.i]

\* operator++ (prefix)
IterInc(a) == [a EXCEPT !.i = a.i + 1]

\* operator-- (prefix)
IterDec(a) == [a EXCEPT !.i = a.i - 1]

\* operator+(difference_type n)
IterPlus(a, n) == MayaArrayIter_ctor_i(a.c, a.i + n)

\* operator-(difference_type n)
IterMinus(a, n) == MayaArrayIter_ctor_i(a.c, a.i - n)

\* difference_type operator-(const MayaArrayIter& other)
IterDiff(a, b) == a.i - b.i

\* Variant of operator==: only the arrays are compared, not the indices.
IterEq_array_only(a, b) == a.c = b.c

\* operator==
IterEq(a, b) == a.i = b.i /\ a.c = b.c

\* operator!=
IterNe(a, b) == ~IterEq(a, b)

\* Variant of operator<: <= on the indices.
IterLt_or_equal(a, b) == ULessEq(a.i, b.i) /\ a.c = b.c

\* operator<
IterLt(a, b) == ULess(a.i, b.i) /\ a.c = b.c

\* operator>
IterGt(a, b) == ~(IterLt(a, b) \/ IterEq(a, b))

\* operator<=
IterLe(a, b) == ~IterGt(a, b)

\* operator>=
IterGe(a, b) == ~IterLt(a, b)

-----------------------------------------------------------------------------
(* MayaArrayRange: it stores the reference T& mArray, here the identity r. *)

MayaArrayRange_ctor(c) == c

MayaArrayRange_begin(h, r) == MayaArrayIter_ctor(r)

MayaArrayRange_end(h, r) == MayaArrayIter_ctor_i(r, MArray_length(h[r]))

-----------------------------------------------------------------------------
(* MayaArray: every operation takes the heap h and the identity m of the   *)
(* member mArray and yields the heap afterwards and what it returns.       *)

Returned(h, kind, val, idx) == [h |-> h, ret |-> [kind |-> kind, val |-> val, idx |-> idx]]

\* The iterator(mArray, i) the modifiers return.
ReturnedIter(h, m, i) ==
    LET r == MayaArrayIter_ctor_i(m, i) IN Returned(h, "iterator", r.c, r.i)

MayaArray_begin(h, m) == MayaArrayIter_ctor(m)

MayaArray_end(h, m) == MayaArrayIter_ctor_i(m, MArray_length(h[m]))

MayaArray_size(h, m) == MArray_length(h[m])

MayaArray_push_back(h, m, value) ==
    Returned([h EXCEPT ![m] = MArray_append(h[m], value)], "void", NoValue, 0)

MayaArray_push_front(h, m, value) ==
    Returned([h EXCEPT ![m] = MArray_insert(h[m], value, 0)], "void", NoValue, 0)

MayaArray_clear(h, m) ==
    Returned([h EXCEPT ![m] = MArray_clear(h[m])], "void", NoValue, 0)

\* insert(const_iterator pos, const value_type& value)
MayaArray_insert(h, m, pos, value) ==
    LET i == IterDiff(pos, MayaArray_begin(h, m))
    IN  ReturnedIter([h EXCEPT ![m] = MArray_insert(h[m], value, i)], m, i)

\* Variant of the count-insert loop: one insertion short (count-- > 1).
RECURSIVE InsertCountLoop_short(_, _, _, _)
InsertCountLoop_short(s, count, value, i) ==
    IF count > 1
    THEN InsertCountLoop_short(MArray_insert(s, value, i), count - 1, value, i)
    ELSE s

\* while (count--) mArray.insert(value, i);
RECURSIVE InsertCountLoop(_, _, _, _)
InsertCountLoop(s, count, value, i) ==
    IF count # 0
    THEN InsertCountLoop(MArray_insert(s, value, i), count - 1, value, i)
    ELSE s

\* insert(const_iterator pos, size_type count, const value_type& value)
MayaArray_insert_count(h, m, pos, count, value) ==
    LET i == IterDiff(pos, MayaArray_begin(h, m))
    IN  ReturnedIter([h EXCEPT ![m] = InsertCountLoop(h[m], count, value, i)], m, i)

\* Variant of the range-insert loop: p is never advanced, every value goes
\* in at the same index.
RECURSIVE InsertRangeLoop_fixed(_, _, _, _, _)
InsertRangeLoop_fixed(h, m, p, first, last) ==
    IF first.i # last.i
    THEN LET d == IterDeref(h, first)
         IN  IF d.kind = "assert_fail"
             THEN [h |-> h, ok |-> FALSE]
             ELSE InsertRangeLoop_fixed([h EXCEPT ![m] = MArray_insert(h[m], d.val, p)],
                                        m, p, [first EXCEPT !.i = first.i + 1], last)
    ELSE [h |-> h, ok |-> TRUE]

\* for (size_type p=i; first != last; ++first, ++p) mArray.insert(* first, p);
\* The heap is threaded through the loop because *first reads it.  A failed
\* assertion in *first stops the loop.
RECURSIVE InsertRangeLoop(_, _, _, _, _)
InsertRangeLoop(h, m, p, first, last) ==
    IF IterNe(first, last)
    THEN LET d == IterDeref(h, first)
         IN  IF d.kind = "assert_fail"
             THEN [h |-> h, ok |-> FALSE]
             ELSE InsertRangeLoop([h EXCEPT ![m] = MArray_insert(h[m], d.val, p)],
                                  m, p + 1, IterInc(first), last)
    ELSE [h |-> h, ok |-> TRUE]

\* insert(const_iterator pos, InputIt first, InputIt last)
MayaArray_insert_range(h, m, pos, first, last) ==
    LET i == IterDiff(pos, MayaArray_begin(h, m))
        r == InsertRangeLoop(h, m, i, first, last)
    IN  IF r.ok THEN ReturnedIter(r.h, m, i)
        ELSE Returned(r.h, "assert_fail", NoValue, i)

\* erase(const_iterator pos)
MayaArray_erase(h, m, pos) ==
    LET i == IterDiff(pos, MayaArray_begin(h, m))
    IN  ReturnedIter([h EXCEPT ![m] = MArray_remove(h[m], i)], m, i)

\* Variant of the erase loop: remove(first.i), the moving index, where the
\* code has remove(i).
RECURSIVE EraseLoop_moving(_, _, _, _, _)
EraseLoop_moving(s, i, first, last, calls) ==
    IF first.i # last.i
    THEN EraseLoop_moving(MArray_remove(s, first.i), i,
                          [first EXCEPT !.i = first.i + 1], last, calls + 1)
    ELSE [s |-> s, calls |-> calls]

\* for (; first != last; ++first) mArray.remove(i);
\* `calls` counts the host remove calls made.
RECURSIVE EraseLoop(_, _, _, _, _)
EraseLoop(s, i, first, last, calls) ==
    IF IterNe(first, last)
    THEN EraseLoop(MArray_remove(s, i), i, IterInc(first), last, calls + 1)
    ELSE [s |-> s, calls |-> calls]

\* erase(const_iterator first, const_iterator last)
MayaArray_erase_range(h, m, first, last) ==
    LET i == IterDiff(first, MayaArray_begin(h, m))
        r == EraseLoop(h[m], i, first, last, 0)
        t == MayaArrayIter_ctor_i(m, i)
    IN  [h |-> [h EXCEPT ![m] = r.s],
         ret |-> [kind |-> "iterator", val |-> t.c, idx |-> t.i, calls |-> r.calls]]

\* resize(size_type count)
MayaArray_resize(h, m, count, garbage) ==
    Returned([h EXCEPT ![m] = MArray_setLength(h[m], count, garbage)],
             "void", NoValue, 0)

\* for (size_type i=oldSize; i < count; ++i) mArray[i] = value;
RECURSIVE ResizeFillLoop(_, _, _, _)
ResizeFillLoop(s, i, count, value) ==
    IF ULess(i, count)
    THEN ResizeFillLoop(MArray_set(s, i, value), i + 1, count, value)
    ELSE s

\* Variant of resize(count, value): the new elements are not filled.
MayaArray_resize_value_nofill(h, m, count, value, garbage) ==
    Returned([h EXCEPT ![m] = MArray_setLength(h[m], count, garbage)],
             "void", NoValue, 0)

\* resize(size_type count, const value_type& value)
MayaArray_resize_value(h, m, count, value, garbage) ==
    LET oldSize == MayaArray_size(h, m)
        s == IF ULess(count, oldSize)
             THEN MArray_setLength(h[m], count, garbage)
             ELSE IF ULess(oldSize, count)
             THEN ResizeFillLoop(MArray_setLength(h[m], count, garbage),
                                 oldSize, count, value)
             ELSE h[m]
    IN  Returned([h EXCEPT ![m] = s], "void", NoValue, 0)

\* reference at(size_type pos)
MayaArray_at(h, m, pos) ==
    IF ULessEq(MArray_length(h[m]), pos)
    THEN Returned(h, "out_of_range", NoValue, pos)
    ELSE Returned(h, "value", MArray_index(h[m], pos), pos)

\* Variant of at() const: the bound is tested with < where the code has <=.
MayaArray_at_const_strict(h, m, pos) ==
    IF ULess(MArray_length(h[m]), pos)
    THEN Returned(h, "out_of_range", NoValue, pos)
    ELSE Returned(h, "value", MArray_index(h[m], pos), pos)

\* const_reference at(size_type pos) const
MayaArray_at_const(h, m, pos) ==
    IF ULessEq(MArray_length(h[m]), pos)
    THEN Returned(h, "out_of_range", NoValue, pos)
    ELSE Returned(h, "value", MArray_index(h[m], pos), pos)

\* front(): returns *begin()
MayaArray_front(h, m) ==
    [h |-> h, ret |-> IterDeref(h, MayaArray_begin(h, m))]

\* Variant of back(): *end(), without the - 1.
MayaArray_back_end(h, m) ==
    [h |-> h, ret |-> IterDeref(h, MayaArrayIter_ctor_i(m, MArray_length(h[m])))]

\* back(): returns *(end() - 1)
MayaArray_back(h, m) ==
    [h |-> h, ret |-> IterDeref(h, IterMinus(MayaArray_end(h, m), 1))]

-----------------------------------------------------------------------------
(* Writes through an iterator of a MayaArrayRange.                         *)

\* Variant of *it = value: the iterator holds a copy of the array (C c where
\* the code has C& c), so the write never reaches the host array.
IterWrite_copy(h, a, value) ==
    IF IterAssert(h, a)
    THEN Returned(h, "written", value, a.i)
    ELSE Returned(h, "assert_fail", NoValue, a.i)

\* *it = value
IterWrite(h, a, value) ==
    IF IterAssert(h, a)
    THEN Returned([h EXCEPT ![a.c] = MArray_set(h[a.c], a.i, value)],
                  "written", value, a.i)
    ELSE Returned(h, "assert_fail", NoValue, a.i)

\* The index c[i + n] of operator[](n).
IterIndexOf(a, n) == a.i + n

\* it[n] = value.  Nothing checks the index: outside the array the write is
\* undefined behaviour, modelled as any content of the array whatever.
IterIndexWriteOutcomes(h, a, n, value) ==
    LET k == IterIndexOf(a, n)
    IN  IF ULess(k, MArray_length(h[a.c]))
        THEN {Returned([h EXCEPT ![a.c] = MArray_set(h[a.c], k, value)],
                       "written", value, k)}
        ELSE {Returned([h EXCEPT ![a.c] = s], "undefined", NoValue, k) :
                 s \in SeqsUpTo(Values, MArray_length(h[a.c]))}

-----------------------------------------------------------------------------
(* std::hash<MString> and std::equal_to<MString>.                          *)
(* An MString is an object with its characters; two objects can hold the   *)
(* same characters.  The host's interning table is the sequence of the     *)
(* distinct character strings interned so far; a MUniqueString is an index *)
(* into it.  The host's hash of a MUniqueString is some fixed function of  *)
(* the unique string, hostHash below.                                      *)

MStrings == {[obj |-> "o1", chars |-> "ab"], [obj |-> "o2", chars |-> "ab"],
             [obj |-> "o3", chars |-> "cd"], [obj |-> "o4", chars |-> "ef"]}

HashValues == {0, 1}

\* Position of the characters in the table, 0 when absent.
TableFind(table, chars) ==
    IF \E k \in 1..Len(table) : table[k] = chars
    THEN CHOOSE k \in 1..Len(table) : table[k] = chars
    ELSE 0

\* MUniqueString::intern(value): the unique string of these characters,
\* entered into the table on first use.
MUniqueString_intern(table, value) ==
    IF TableFind(table, value.chars) # 0
    THEN [table |-> table, unique |-> TableFind(table, value.chars)]
    ELSE [table |-> Append(table, value.chars), unique |-> Len(table) + 1]

\* MUniqueString::hash()
MUniqueString_hash(hf, table, unique) == hf[table[unique]]

\* MString::operator==
MString_eq(a, b) == a.chars = b.chars

\* Variant of std::hash<MString>: the hash is taken of the unique string
\* interned last, not of the one intern() returned.
hash_MString_last(hf, table, value) ==
    LET uniqueString == MUniqueString_intern(table, value)
    IN  [table |-> uniqueString.table,
         hash |-> MUniqueString_hash(hf, uniqueString.table,
                                     Len(uniqueString.table))]

\* std::hash<MString>::operator()
hash_MString(hf, table, value) ==
    LET uniqueString == MUniqueString_intern(table, value)
    IN  [table |-> uniqueString.table,
         hash |-> MUniqueString_hash(hf, uniqueString.table,
                                     uniqueString.unique)]

\* std::equal_to<MString>::operator()
equal_to_MString(valueA, valueB) == MString_eq(valueA, valueB)

-----------------------------------------------------------------------------
(* Initial states *)

Void == [kind |-> "void", val |-> NoValue, idx |-> 0]
NoIter == MayaArrayIter_ctor(MA)

\* The MayaArray is constructed empty, with count copies of a value, or as a
\* copy of a host array; the wrapped host array is whatever the host made.
ArrayInit ==
    /\ heap \in [ArrayIds -> SeqsUpTo(Values, MaxLen)]
    /\ Len(heap[HA]) <= MaxHostLen
    /\ op = "none" /\ args = <<>> /\ pre = heap /\ ret = Void
    /\ pc = "idle" /\ it = NoIter /\ trace = <<>> /\ incs = 0
    /\ asserted = TRUE

HashInit ==
    /\ hostHash \in [{v.chars : v \in MStrings} -> HashValues]
    /\ internTable = <<>>
    /\ hashLog = <<>>

Init ==
    /\ ArrayInit
    /\ hostHash = [c \in {v.chars : v \in MStrings} |-> 0]
    /\ internTable = <<>>
    /\ hashLog = <<>>

-----------------------------------------------------------------------------
(* Calls on the arrays.  A call is made between loops, never inside one:   *)
(* the program is single-threaded and the loop body only reads *it.  The   *)
(* caller takes the result of one call (Continue) before it makes the next.*)

Call(o, a, r) ==
    /\ op' = o /\ args' = a /\ pre' = heap
    /\ heap' = r.h /\ ret' = r.ret
    /\ pc' = "returned"
    /\ UNCHANGED <<it, trace, incs, asserted, hashVars>>

Continue ==
    /\ pc \in {"returned", "done"}
    /\ pc' = "idle"
    /\ op' = "none" /\ args' = <<>> /\ pre' = heap /\ ret' = Void
    /\ it' = NoIter /\ trace' = <<>> /\ incs' = 0 /\ asserted' = TRUE
    /\ UNCHANGED <<heap, hashVars>>

\* Positions a caller may pass for an array of length n: begin() .. end().
IterAt(c, k) == IterPlus(MayaArrayIter_ctor(c), k)

PushBack ==
    /\ pc = "idle"
    /\ \E v \in Values :
        /\ Len(heap[MA]) < MaxLen
        /\ Call("push_back", [value |-> v], MayaArray_push_back(heap, MA, v))

PushFront ==
    /\ pc = "idle"
    /\ \E v \in Values :
        /\ Len(heap[MA]) < MaxLen
        /\ Call("push_front", [value |-> v], MayaArray_push_front(heap, MA, v))

Clear ==
    /\ pc = "idle"
    /\ Call("clear", <<>>, MayaArray_clear(heap, MA))

Insert ==
    /\ pc = "idle"
    /\ \E k \in 0..Len(heap[MA]), v \in Values :
        /\ Len(heap[MA]) < MaxLen
        /\ Call("insert", [pos |-> k, value |-> v],
                MayaArray_insert(heap, MA, IterAt(MA, k), v))

InsertCount ==
    /\ pc = "idle"
    /\ \E k \in 0..Len(heap[MA]), n \in 0..MaxCount, v \in Values :
        /\ Len(heap[MA]) + n <= MaxLen
        /\ Call("insert_count", [pos |-> k, count |-> n, value |-> v],
                MayaArray_insert_count(heap, MA, IterAt(MA, k), n, v))

\* The range [first, last) lies in the other host array.
InsertRange ==
    /\ pc = "idle"
    /\ \E k \in 0..Len(heap[MA]), l \in 0..Len(heap[HA]) :
        \E f \in 0..l :
            /\ Len(heap[MA]) + (l - f) <= MaxLen
            /\ Call("insert_range", [pos |-> k, first |-> f, last |-> l],
                    MayaArray_insert_range(heap, MA, IterAt(MA, k),
                                           IterAt(HA, f), IterAt(HA, l)))

Erase ==
    /\ pc = "idle"
    /\ \E k \in 0..(Len(heap[MA]) - 1) :
        Call("erase", [pos |-> k], MayaArray_erase(heap, MA, IterAt(MA, k)))

EraseRange ==
    /\ pc = "idle"
    /\ \E l \in 0..Len(heap[MA]) :
        \E f \in 0..l :
            Call("erase_range", [first |-> f, last |-> l],
                 MayaArray_erase_range(heap, MA, IterAt(MA, f), IterAt(MA, l)))

Resize ==
    /\ pc = "idle"
    /\ \E n \in 0..MaxLen, g \in [1..MaxLen -> Values] :
        Call("resize", [count |-> n],
             MayaArray_resize(heap, MA, n, g))

ResizeValue ==
    /\ pc = "idle"
    /\ \E n \in 0..MaxLen, v \in Values, g \in [1..MaxLen -> Values] :
        Call("resize_value", [count |-> n, value |-> v],
             MayaArray_resize_value(heap, MA, n, v, g))

\* Positions asked of at(): in range, one past, two past, and UINT_MAX.
AtPositions == (0..(MaxLen + 1)) \cup {-1}

At ==
    /\ pc = "idle"
    /\ \E p \in AtPositions :
        Call("at", [pos |-> p], MayaArray_at(heap, MA, p))

AtConst ==
    /\ pc = "idle"
    /\ \E p \in AtPositions :
        Call("at_const", [pos |-> p], MayaArray_at_const(heap, MA, p))

Front ==
    /\ pc = "idle"
    /\ Call("front", <<>>, MayaArray_front(heap, MA))

Back ==
    /\ pc = "idle"
    /\ Call("back", <<>>, MayaArray_back(heap, MA))

-----------------------------------------------------------------------------
(* Iterators of a MayaArrayRange over either array, and the host changing  *)
(* the length of its own array behind the range.                           *)

\* *it = value with it = begin() + k
RangeWrite ==
    /\ pc = "idle"
    /\ \E c \in ArrayIds, k \in 0..MaxLen, v \in Values :
        /\ k <= Len(heap[c])
        /\ Call("write", [c |-> c, i |-> k, value |-> v],
             IterWrite(heap, IterPlus(MayaArrayRange_begin(heap, MayaArrayRange_ctor(c)), k), v))

\* it[n] = value with it = begin() + k
RangeIndexWrite ==
    /\ pc = "idle"
    /\ \E c \in ArrayIds, k \in 0..MaxLen, n \in 0..1, v \in Values :
        /\ k <= Len(heap[c])
        /\ \E r \in IterIndexWriteOutcomes(heap,
                    IterPlus(MayaArrayRange_begin(heap, MayaArrayRange_ctor(c)), k), n, v) :
            Call("index_write", [c |-> c, i |-> k, n |-> n, value |-> v], r)

HostAppend ==
    /\ pc = "idle"
    /\ \E v \in Values :
        /\ Len(heap[HA]) < MaxHostLen
        /\ Call("host_append", [value |-> v],
                Returned([heap EXCEPT ![HA] = MArray_append(heap[HA], v)],
                         "void", NoValue, 0))

HostRemove ==
    /\ pc = "idle"
    /\ \E k \in 0..(Len(heap[HA]) - 1) :
        Call("host_remove", [index |-> k],
             Returned([heap EXCEPT ![HA] = MArray_remove(heap[HA], k)],
                      "void", NoValue, 0))

\* end() of a range constructed over c, asked at any later time.
RangeEnd ==
    /\ pc = "idle"
    /\ \E c \in ArrayIds :
        LET e == MayaArrayRange_end(heap, MayaArrayRange_ctor(c))
        IN  Call("range_end", [c |-> c], Returned(heap, "iterator", e.c, e.i))

-----------------------------------------------------------------------------
(* The loop  for (it = begin(); it != end(); ++it) { read *it }           *)

LoopBegin ==
    /\ pc = "idle"
    /\ \E c \in ArrayIds :
        /\ it' = MayaArrayRange_begin(heap, MayaArrayRange_ctor(c))
        /\ pc' = "test"
        /\ trace' = <<>> /\ incs' = 0 /\ asserted' = TRUE
        /\ op' = "loop" /\ args' = [c |-> c] /\ pre' = heap /\ ret' = Void
        /\ UNCHANGED <<heap, hashVars>>

LoopTest ==
    /\ pc = "test"
    /\ pc' = IF IterNe(it, MayaArrayRange_end(heap, MayaArrayRange_ctor(it.c)))
             THEN "body" ELSE "done"
    /\ UNCHANGED <<heap, op, args, pre, ret, it, trace, incs, asserted, hashVars>>

LoopBody ==
    /\ pc = "body"
    /\ LET d == IterDeref(heap, it)
       IN  /\ trace' = Append(trace, d.idx)
           /\ asserted' = (asserted /\ d.kind = "value")
    /\ it' = IterInc(it)
    /\ incs' = incs + 1
    /\ pc' = "test"
    /\ UNCHANGED <<heap, op, args, pre, ret, hashVars>>

-----------------------------------------------------------------------------
(* Comparing two iterators *)

IterPositions == 0..(MaxLen + 1)

\* Two iterators come into being: over the same array or over two arrays.
ComparePick ==
    /\ pc = "idle"
    /\ \E ca \in ArrayIds, cb \in ArrayIds, ia \in IterPositions, ib \in IterPositions :
        /\ op' = "iterators"
        /\ args' = [a |-> MayaArrayIter_ctor_i(ca, ia), b |-> MayaArrayIter_ctor_i(cb, ib)]
        /\ pc' = "picked"
        /\ UNCHANGED <<heap, pre, ret, it, trace, incs, asserted, hashVars>>

\* All six comparisons of the two iterators.
Compare ==
    /\ pc = "picked"
    /\ op' = "compare"
    /\ ret' = [kind |-> "compare",
               eq |-> IterEq(args.a, args.b), ne |-> IterNe(args.a, args.b),
               lt |-> IterLt(args.a, args.b), gt |-> IterGt(args.a, args.b),
               le |-> IterLe(args.a, args.b), ge |-> IterGe(args.a, args.b)]
    /\ pc' = "returned"
    /\ UNCHANGED <<heap, args, pre, it, trace, incs, asserted, hashVars>>

-----------------------------------------------------------------------------
(* Hashing and comparing MStrings *)

Hash ==
    \E v \in MStrings :
        LET r == hash_MString(hostHash, internTable, v)
        IN  /\ Len(hashLog) < MaxHashCalls
            /\ internTable' = r.table
            /\ hashLog' = Append(hashLog, [value |-> v, hash |-> r.hash])
            /\ op' = "hash" /\ args' = [value |-> v]
            /\ ret' = [kind |-> "hash", val |-> NoValue, idx |-> r.hash]
            /\ UNCHANGED <<heap, pre, pc, it, trace, incs, asserted, hostHash>>

EqualTo ==
    \E a \in MStrings, b \in MStrings :
        /\ op' = "equal_to" /\ args' = [a |-> a, b |-> b]
        /\ ret' = [kind |-> "equal_to", eq |-> equal_to_MString(a, b)]
        /\ UNCHANGED <<heap, pre, pc, it, trace, incs, asserted, hashVars>>

-----------------------------------------------------------------------------
(* Specifications *)

Next ==
    \/ PushBack \/ PushFront \/ Clear
    \/ Insert \/ InsertCount \/ InsertRange
    \/ Erase \/ EraseRange
    \/ Resize \/ ResizeValue
    \/ At \/ AtConst \/ Front \/ Back
    \/ RangeWrite \/ RangeIndexWrite \/ HostAppend \/ HostRemove \/ RangeEnd
    \/ LoopBegin \/ LoopTest \/ LoopBody
    \/ Continue

Spec == Init /\ [][Next]_vars

\* The iterator comparisons are pure: the two iterators are drawn at the
\* start and the comparison operators applied to them.
CompareInit ==
    /\ ArrayInit
    /\ heap = [c \in ArrayIds |-> <<>>]
    /\ hostHash = [c \in {v.chars : v \in MStrings} |-> 0]
    /\ internTable = <<>>
    /\ hashLog = <<>>

CompareSpec == CompareInit /\ [][ComparePick \/ Compare]_vars

HashNext == Hash \/ EqualTo

HashSpecInit == ArrayInit /\ heap = [c \in ArrayIds |-> <<>>] /\ HashInit

HashSpec == HashSpecInit /\ [][HashNext]_vars

-----------------------------------------------------------------------------
(* The claims.  In each, `pre` is the heap before the call recorded in op   *)
(* and args, `heap` the heap after it and `ret` what the call returned.     *)

\* A position below a size, the position read as the unsigned number it is:
\* a negative pattern is a position of 2^31 or more, above every size here.
PosBelowSize(pos, n) == pos >= 0 /\ pos < n

\* The elements of t agree with those of s at every index but k (from 0).
SameBut(s, t, k) ==
    /\ Len(t) = Len(s)
    /\ \A j \in 1..Len(s) : j # k + 1 => t[j] = s[j]

\* C1: at(pos), const or not, throws out_of_range exactly when
\* pos >= size(), otherwise returns the element at index pos, and leaves the
\* array (length and elements) as it was; in every state any sequence of
\* push_back, push_front, insert, erase, resize and clear leads to.
C1_AtThrowsExactlyOutOfRange ==
    (pc = "returned" /\ op \in {"at", "at_const"}) =>
        /\ (ret.kind = "out_of_range") <=> ~PosBelowSize(args.pos, Len(pre[MA]))
        /\ PosBelowSize(args.pos, Len(pre[MA])) =>
               /\ ret.kind = "value"
               /\ ret.val = pre[MA][args.pos + 1]
        /\ heap = pre

\* at() const called with pos = size() on a non-empty array: it throws.
C1_Witness ==
    /\ pc = "returned" /\ op = "at_const"
    /\ Len(pre[MA]) >= 2
    /\ args.pos = Len(pre[MA])
    /\ ret.kind = "out_of_range"

\* C2: a range and its iterators hold no copy.  A write through *it or
\* it[n] at an index inside the array changes exactly that element of the
\* wrapped host array (same length, every other element and the other array
\* unchanged); and once the host has changed the length of its array,
\* end() - begin() of the range is the current length.
C2_RangeForwardsToHost ==
    /\ (pc = "returned" /\ op = "write" /\ PosBelowSize(args.i, Len(pre[args.c]))) =>
           /\ ret.kind = "written"
           /\ heap[args.c][args.i + 1] = args.value
           /\ SameBut(pre[args.c], heap[args.c], args.i)
           /\ \A d \in ArrayIds \ {args.c} : heap[d] = pre[d]
    /\ (pc = "returned" /\ op = "index_write"
          /\ PosBelowSize(args.i + args.n, Len(pre[args.c]))) =>
           /\ ret.kind = "written"
           /\ heap[args.c][args.i + args.n + 1] = args.value
           /\ SameBut(pre[args.c], heap[args.c], args.i + args.n)
           /\ \A d \in ArrayIds \ {args.c} : heap[d] = pre[d]
    /\ (pc = "returned" /\ op \in {"host_append", "host_remove"}) =>
           LET r == MayaArrayRange_ctor(HA)
           IN  IterDiff(MayaArrayRange_end(heap, r), MayaArrayRange_begin(heap, r))
                   = Len(heap[HA])
    /\ (pc = "returned" /\ op = "range_end") =>
           /\ ret.kind = "iterator" /\ ret.val = args.c
           /\ ret.idx = Len(heap[args.c])

\* The host appended to its non-empty array behind the range: the length
\* differs from the one before and end() follows it.
C2_Witness ==
    /\ pc = "returned" /\ op = "host_append"
    /\ Len(heap[HA]) = Len(pre[HA]) + 1
    /\ Len(pre[HA]) >= 1
    /\ MayaArrayRange_end(heap, MayaArrayRange_ctor(HA)).i = Len(pre[HA]) + 1

\* C3: over an array of length n that the loop does not modify,
\* for (it = begin(); it != end(); ++it) makes at most n increments while it
\* runs and exactly n when it has ended, dereferences 0, 1, ..., n-1 in that
\* order, every dereference satisfies assert(i < length()), and
\* end() - begin() is n (no dereference at all for n = 0).
C3_LoopVisitsEachIndexOnce ==
    pc \in {"test", "body", "done"} =>
        LET n == Len(heap[args.c])
            r == MayaArrayRange_ctor(args.c)
        IN  /\ heap = pre
            /\ incs <= n
            /\ pc = "body" => incs < n
            /\ asserted
            /\ trace = [k \in 1..incs |-> k - 1]
            /\ IterDiff(MayaArrayRange_end(heap, r), MayaArrayRange_begin(heap, r)) = n
            /\ pc = "done" => incs = n

\* The loop has ended over the MayaArray's array of the largest length.
C3_Witness ==
    /\ pc = "done" /\ op = "loop" /\ args.c = MA
    /\ Len(heap[MA]) = MaxLen
    /\ incs = MaxLen
    /\ Len(trace) = MaxLen

\* C4: erase(first, last) with begin() <= first <= last <= end() removes
\* exactly the elements at [first, last) with last - first host remove calls:
\* what was before first and what was from last on stay in order, size()
\* drops by last - first, the iterator returned is at first's index, and
\* erase(first, first) changes nothing.
C4_EraseRangeRemovesExactlyTheRange ==
    (pc = "returned" /\ op = "erase_range") =>
        LET s == pre[MA]
            f == args.first
            l == args.last
        IN  /\ heap[MA] = SubSeq(s, 1, f) \o SubSeq(s, l + 1, Len(s))
            /\ Len(heap[MA]) = Len(s) - (l - f)
            /\ ret.calls = l - f
            /\ ret.kind = "iterator" /\ ret.val = MA /\ ret.idx = f
            /\ heap[HA] = pre[HA]
            /\ (f = l) => heap = pre

\* A range of two elements erased from the inside of the array.
C4_Witness ==
    /\ pc = "returned" /\ op = "erase_range"
    /\ args.first = 1 /\ args.last = 3 /\ Len(pre[MA]) = 4
    /\ pre[MA][1] # pre[MA][4]
    /\ heap[MA] = <<pre[MA][1], pre[MA][4]>>

\* C5: insert(pos, first, last) with [first, last) outside this array puts
\* the range's values before pos in source order: indices pos .. pos+k-1
\* hold them, [0, pos) is unchanged, what was at pos and later follows
\* shifted by k, and the iterator returned is at the first inserted value.
C5_InsertRangeKeepsSourceOrder ==
    (pc = "returned" /\ op = "insert_range") =>
        LET s == pre[MA]
            src == pre[HA]
            p == args.pos
            k == args.last - args.first
        IN  /\ Len(heap[MA]) = Len(s) + k
            /\ \A j \in 1..p : heap[MA][j] = s[j]
            /\ \A j \in 1..k : heap[MA][p + j] = src[args.first + j]
            /\ \A j \in (p + 1)..Len(s) : heap[MA][j + k] = s[j]
            /\ ret.kind = "iterator" /\ ret.val = MA /\ ret.idx = p
            /\ heap[HA] = pre[HA]

\* Two different values inserted between two elements.
C5_Witness ==
    /\ pc = "returned" /\ op = "insert_range"
    /\ args.pos = 1 /\ Len(pre[MA]) = 2
    /\ args.first = 0 /\ args.last = 2
    /\ pre[HA][1] # pre[HA][2]
    /\ heap[MA] = <<pre[MA][1], pre[HA][1], pre[HA][2], pre[MA][2]>>

\* C6: insert(pos, count, value) inserts value before pos count times:
\* size() grows by count, indices pos .. pos+count-1 hold value, what was
\* earlier is unchanged and what was later is shifted by count, the iterator
\* returned is at the first inserted value, and count = 0 changes nothing.
C6_InsertCountInsertsCountCopies ==
    (pc = "returned" /\ op = "insert_count") =>
        LET s == pre[MA]
            p == args.pos
            k == args.count
        IN  /\ Len(heap[MA]) = Len(s) + k
            /\ \A j \in 1..p : heap[MA][j] = s[j]
            /\ \A j \in 1..k : heap[MA][p + j] = args.value
            /\ \A j \in (p + 1)..Len(s) : heap[MA][j + k] = s[j]
            /\ ret.kind = "iterator" /\ ret.val = MA /\ ret.idx = p
            /\ (k = 0) => heap = pre

\* Two copies inserted between two elements that differ from the value.
C6_Witness ==
    /\ pc = "returned" /\ op = "insert_count"
    /\ args.count = 2 /\ args.pos = 1 /\ Len(pre[MA]) = 2
    /\ pre[MA][1] # args.value /\ pre[MA][2] # args.value
    /\ heap[MA] = <<pre[MA][1], args.value, args.value, pre[MA][2]>>

\* C7: resize(count, value) sets size() to count; growing, the new elements
\* at [oldSize, count) equal value and [0, oldSize) is unchanged; shrinking,
\* the first count elements are unchanged; count = oldSize changes nothing.
C7_ResizeValueFillsNewElements ==
    (pc = "returned" /\ op = "resize_value") =>
        LET s == pre[MA]
            n == args.count
        IN  /\ Len(heap[MA]) = n
            /\ \A j \in 1..n :
                   heap[MA][j] = IF j <= Len(s) THEN s[j] ELSE args.value
            /\ (n = Len(s)) => heap = pre
            /\ heap[HA] = pre[HA]

\* The array grew by two elements behind an element that differs from value.
C7_Witness ==
    /\ pc = "returned" /\ op = "resize_value"
    /\ Len(pre[MA]) = 2 /\ args.count = 4
    /\ pre[MA][2] # args.value
    /\ heap[MA][3] = args.value /\ heap[MA][4] = args.value

\* C8: for two iterators a and b over the same array the comparisons agree
\* with the order of the indices: exactly one of a < b, a == b, a > b holds,
\* a != b is the negation of a == b, a <= b is (a < b or a == b) and
\* a >= b is (a > b or a == b).
C8_ComparisonsAgreeWithIndexOrder ==
    (op = "compare" /\ args.a.c = args.b.c) =>
        /\ ret.lt <=> (args.a.i < args.b.i)
        /\ ret.eq <=> (args.a.i = args.b.i)
        /\ ret.gt <=> (args.a.i > args.b.i)
        /\ Cardinality({x \in {"lt", "eq", "gt"} : ret[x]}) = 1
        /\ ret.ne <=> ~ret.eq
        /\ ret.le <=> (ret.lt \/ ret.eq)
        /\ ret.ge <=> (ret.gt \/ ret.eq)

\* Two iterators over the same array, the first further on than the second.
C8_Witness ==
    /\ op = "compare" /\ args.a.c = args.b.c
    /\ args.a.i > args.b.i /\ args.b.i > 0
    /\ ret.gt /\ ret.ge /\ ret.ne

\* C9: on a non-empty array front() is the element at index 0 and back()
\* the element at index size() - 1, the dereference inside satisfies
\* assert(i < length()), and the array is unchanged; after push_back(v)
\* back() is v and after push_front(v) front() is v.
C9_FrontBackAreFirstAndLast ==
    /\ (pc = "returned" /\ op = "front" /\ Len(pre[MA]) > 0) =>
           /\ ret.kind = "value" /\ ret.idx = 0
           /\ ret.val = pre[MA][1]
           /\ heap = pre
    /\ (pc = "returned" /\ op = "back" /\ Len(pre[MA]) > 0) =>
           /\ ret.kind = "value" /\ ret.idx = Len(pre[MA]) - 1
           /\ ret.val = pre[MA][Len(pre[MA])]
           /\ heap = pre
    /\ (pc = "returned" /\ op = "push_back") =>
           /\ MayaArray_back(heap, MA).ret.kind = "value"
           /\ MayaArray_back(heap, MA).ret.val = args.value
    /\ (pc = "returned" /\ op = "push_front") =>
           /\ MayaArray_front(heap, MA).ret.kind = "value"
           /\ MayaArray_front(heap, MA).ret.val = args.value

\* back() on an array whose first and last elements differ.
C9_Witness ==
    /\ pc = "returned" /\ op = "back"
    /\ Len(pre[MA]) >= 2
    /\ pre[MA][1] # pre[MA][Len(pre[MA])]
    /\ ret.val = pre[MA][Len(pre[MA])]

\* C10: std::hash<MString> and std::equal_to<MString> are consistent: over
\* all the hash calls made, two calls on values that equal_to holds of gave
\* the same hash (so also two calls on the same value, whatever strings were
\* hashed, and thereby interned, between them).
C10_HashConsistentWithEqualTo ==
    \A i \in 1..Len(hashLog), j \in 1..Len(hashLog) :
        equal_to_MString(hashLog[i].value, hashLog[j].value) =>
            hashLog[i].hash = hashLog[j].hash

\* Two equal strings held by different objects were hashed with another
\* string, of another hash, hashed in between.
C10_Witness ==
    /\ Len(hashLog) = 3
    /\ hashLog[1].value.obj # hashLog[3].value.obj
    /\ equal_to_MString(hashLog[1].value, hashLog[3].value)
    /\ ~equal_to_MString(hashLog[1].value, hashLog[2].value)
    /\ hashLog[2].hash # hashLog[1].hash
    /\ hashLog[3].hash = hashLog[1].hash

=============================================================================
